---- MODULE Spec2Model ----
(***************************************************************************)
(* Chunked file transfer of secure-p2p-share-tor: P2PTransfer.send_file    *)
(* (the sender), P2PTransfer._handle_client / _receive_file (the receiver  *)
(* worker) and FileHandler (chunk I/O), over a TCP byte stream.            *)
(*                                                                         *)
(* The stream is a sequence of units.  A unit is a tuple:                  *)
(*   <<"b", n>>          one raw byte (10 is the newline byte)             *)
(*   <<"t", id, h>>      half h (1 or 2) of the text of control token id   *)
(*   <<"j", "hs", ...>>  the text of the JSON handshake object             *)
(*   <<"j", "hdr", ...>> the text of a JSON chunk header object            *)
(* A control line is its text followed by the newline byte.  recv(n)       *)
(* returns any non-empty prefix of at most n units of what is in flight,   *)
(* so every segmentation of the stream is a behaviour.                     *)
(***************************************************************************)
EXTENDS Integers, Sequences, FiniteSets, TLC

\* ---------------------------------------------------------------- bounds
MaxFileSize == 3
ChunkSize == 2
MaxPeerMsgs == 3

\* ------------------------------------------------------- program constants
CtlRecvSize == 1024
DataRecvSize == 4096

\* ------------------------------------------------------------ byte stream
NL == <<"b", 10>>
BX == <<"b", 65>>
ByteVals == {NL, BX}

\* a byte that is not valid UTF-8 where it stands
BAD == <<"b", 255>>

\* data.decode() returns
Decodable(s) == \A i \in 1..Len(s) : s[i] # BAD

NoFile == << <<"nofile">> >>

Files == UNION {[1..k -> ByteVals] : k \in 0..MaxFileSize}

Min(a, b) == IF a < b THEN a ELSE b

Take(s, n) == SubSeq(s, 1, n)

Drop(s, n) == SubSeq(s, n + 1, Len(s))

\* b'\n' in data
HasNL(s) == \E i \in 1..Len(s) : s[i] = NL

\* data.decode().strip(): the only whitespace of the alphabet is the newline
Strip(s) ==
    LET keep == {i \in 1..Len(s) : s[i] # NL}
    IN IF keep = {} THEN <<>>
       ELSE LET lo == CHOOSE i \in keep : \A j \in keep : i <= j
                hi == CHOOSE i \in keep : \A j \in keep : j <= i
            IN SubSeq(s, lo, hi)

TokenText(id) == << <<"t", id, 1>>, <<"t", id, 2>> >>

\* b'<token>\n'
TokenBytes(id) == TokenText(id) \o <<NL>>

\* data.decode().strip() == '<token>'
IsToken(data, id) == Strip(data) = TokenText(id)

READY == <<"READY">>
NOT_READY == <<"NOT_READY">>
TRANSFER_COMPLETE == <<"TRANSFER_COMPLETE">>
SUCCESS == <<"SUCCESS">>
CHECKSUM_MISMATCH == <<"CHECKSUM_MISMATCH">>
TRANSFER_INCOMPLETE == <<"TRANSFER_INCOMPLETE">>
ChunkOkToken(i) == <<"CHUNK", i, "OK">>
ChunkFailToken(i) == <<"CHUNK", i, "FAIL">>

\* json.dumps(metadata_dict).encode() + b'\n'
HandshakeBytes(filename, filesize, chunks, checksum, action) ==
    << <<"j", "hs", filename, filesize, chunks, checksum, action>>, NL >>

\* json.dumps(chunk_info).encode() + b'\n'
HeaderBytes(index, size, final) == << <<"j", "hdr", index, size, final>>, NL >>

\* json.loads(data.decode().strip()) succeeds: the stripped text is one object
JsonOk(data) == Len(Strip(data)) = 1 /\ Strip(data)[1][1] = "j"

JsonValue(data) == Strip(data)[1]

\* sock.recv(n): <<data, rest>>; b'' once the peer has closed and the stream
\* is drained; blocks (no result) while the stream is empty and open
RecvResults(ch, peerClosed, n) ==
    IF ch # <<>>
    THEN {<<Take(ch, k), Drop(ch, k)>> : k \in 1..Min(n, Len(ch))}
    ELSE IF peerClosed THEN {<< <<>>, <<>> >>} ELSE {}

\* ------------------------------------------------------------ FileHandler
\* hashlib.sha256 over the file content, taken as collision free
Checksum(content) == <<"sha256", content>>

\* chunks = (filesize + self.chunk_size - 1) // self.chunk_size
ChunksFor_mut(filesize, chunk_size) == filesize \div chunk_size
ChunksFor(filesize, chunk_size) == (filesize + chunk_size - 1) \div chunk_size

TotalChunks(filesize) == ChunksFor(filesize, ChunkSize)

\* f.seek(chunk_index * chunk_size); f.read(chunk_size)
ReadChunkAt_mut(content, index, chunk_size) ==
    LET off == index * chunk_size
    IN IF off >= Len(content) THEN <<>>
       ELSE SubSeq(content, off + 1, Min(off + chunk_size + 1, Len(content)))
ReadChunkAt(content, index, chunk_size) ==
    LET off == index * chunk_size
    IN IF off >= Len(content) THEN <<>>
       ELSE SubSeq(content, off + 1, Min(off + chunk_size, Len(content)))

ReadChunk(content, index) == ReadChunkAt(content, index, ChunkSize)

\* open(path, 'ab' if chunk_index > 0 else 'wb'); seek; write: a file opened
\* for appending writes at its end whatever the seek position
WriteChunk(old, index, data) ==
    IF index > 0
    THEN (IF old = NoFile THEN <<>> ELSE old) \o data
    ELSE data

\* a path is the sequence of its components; "/" in front marks an
\* absolute path. The file_path argument of send_file:
SrcPath == <<"docs", "f.bin">>

\* os.path.basename(file_path)
Basename(path) == <<path[Len(path)]>>

SrcName == Basename(SrcPath)

\* download_dir
DownloadDir == <<"downloads">>

\* os.path.join(download_dir, filename): an absolute filename replaces the
\* directory
JoinPath(dir, filename) ==
    IF filename # <<>> /\ filename[1] = "/" THEN filename ELSE dir \o filename

\* the file a path names once open() has followed its ".." components
RECURSIVE Resolve(_)
Resolve(path) ==
    IF path = <<>> THEN <<>>
    ELSE LET r == Resolve(SubSeq(path, 1, Len(path) - 1))
             last == path[Len(path)]
         IN IF last = ".." /\ r # <<>> /\ r[Len(r)] \notin {"..", "/"}
            THEN SubSeq(r, 1, Len(r) - 1)
            ELSE Append(r, last)

\* the filenames a handshake may carry
Filenames == {SrcName, <<"..", "f.bin">>}

Paths == {Resolve(JoinPath(DownloadDir, f)) : f \in Filenames}

\* --------------------------------------------------------------- state
\* os_bound: transfer.py uses os.path.join (line 173) but its imports (lines
\* 1-9) do not bind the name os.  In a process that only imports the module
\* the name is unbound (os_bound = FALSE) and _receive_file raises NameError
\* before it sends READY.  os_bound = TRUE is the receiver in a process whose
\* module namespace holds the name; the code after line 173 runs only there.
VARIABLES
    src,              \* content of the sender's file, NoFile if it is missing
    os_bound,         \* whether the global name os resolves in transfer.py
    s_pc, s_idx, s_ret, s_sock, s_log,
    c2r, r2c,         \* bytes in flight: sender to receiver, receiver to sender
    r_sock, r_pc,
    metadata_data, metadata, chunk_info_data, chunk_info, chunk_data,
    received_chunks,
    disk,             \* path -> content of the download directory
    r_log,
    io_failed,        \* an I/O operation failed or timed out in this run
    peer_n,
    \* a FileHandler used on its own
    fh_cs,            \* self.chunk_size
    fh_src,           \* content of the file read, NoFile if the path is missing
    fh_meta,          \* what get_file_metadata returned
    fh_chunks,        \* what read_chunk(0), read_chunk(1), ... returned so far
    fh_dest,          \* content of the file write_chunk writes
    fh_written,       \* the indices passed to write_chunk so far, in call order
    \* a FileEncryptor used on its own
    enc_plain,        \* content of the input file of encrypt_file
    enc_password,
    enc_salt, enc_iv, \* what os.urandom returned
    enc_container,    \* the output file of encrypt_file
    dec_result,       \* return value and output file of decrypt_file
    \* the send command of cli.py
    cli_pc, cli_password, cli_path, cli_handshake,
    \* start_receiver with one worker thread per accepted connection
    is_listening,     \* self.is_listening
    l_pc,             \* position of start_receiver
    l_ret,            \* its return value
    backlog,          \* connections waiting in the listen queue
    w_pc,             \* position of each worker thread
    w_meta,           \* its metadata dict
    w_recv,           \* its received_chunks
    w_end,            \* how its session ended
    l_disk,           \* the download directory the workers share
    l_after           \* sessions already closed when accept() last returned

sender_vars == <<s_pc, s_idx, s_ret, s_sock, s_log>>

recv_vars == <<r_pc, metadata_data, metadata, chunk_info_data, chunk_info,
               chunk_data, received_chunks, disk, r_log>>

store_vars == <<fh_cs, fh_src, fh_meta, fh_chunks, fh_dest, fh_written>>

\* the state outside the transfer session
crypto_vars == <<enc_plain, enc_password, enc_salt, enc_iv, enc_container,
                 dec_result>>

cli_vars == <<cli_pc, cli_password, cli_path, cli_handshake>>

listen_vars == <<is_listening, l_pc, l_ret, backlog, w_pc, w_meta, w_recv, w_end,
                 l_disk, l_after>>

aux_vars == <<store_vars, crypto_vars, cli_vars, listen_vars>>

transfer_vars == <<src, os_bound, s_pc, s_idx, s_ret, s_sock, s_log, c2r, r2c,
                   r_sock, r_pc, metadata_data, metadata, chunk_info_data,
                   chunk_info, chunk_data, received_chunks, disk, r_log,
                   io_failed, peer_n>>

vars == <<src, os_bound, s_pc, s_idx, s_ret, s_sock, s_log, c2r, r2c, r_sock,
          r_pc, metadata_data, metadata, chunk_info_data, chunk_info,
          chunk_data, received_chunks, disk, r_log, io_failed, peer_n,
          aux_vars>>

NoMeta == <<"j", "none">>

\* no FileHandler call made yet
StoreIdle ==
    /\ fh_meta = <<"unset">> /\ fh_chunks = <<>>
    /\ fh_dest = NoFile /\ fh_written = <<>>

\* no transfer session started yet
TransferIdle ==
    /\ s_pc = "init" /\ s_idx = 0 /\ s_ret = "none" /\ s_sock = "none"
    /\ s_log = <<>>
    /\ c2r = <<>> /\ r2c = <<>>
    /\ r_sock = "none" /\ r_pc = "listen"
    /\ metadata_data = <<>> /\ metadata = NoMeta
    /\ chunk_info_data = <<>> /\ chunk_info = NoMeta /\ chunk_data = <<>>
    /\ received_chunks = 0
    /\ r_log = <<>>
    /\ io_failed = FALSE
    /\ peer_n = 0

\* no FileEncryptor call made yet
CryptoIdle ==
    /\ enc_plain = <<>> /\ enc_password = "" /\ enc_salt = <<>> /\ enc_iv = <<>>
    /\ enc_container = <<"absent">> /\ dec_result = <<"unset">>

\* the file_path argument of the send command
PlainPath == "f"

\* f"{file_path}.encrypted"
EncryptedPath == "f.encrypted"

\* the send command not started
CliIdle ==
    /\ cli_pc = "idle" /\ cli_password = <<"None">>
    /\ cli_path = PlainPath /\ cli_handshake = <<"unset">>

MaxSessions == 2
MaxSessChunks == 1

Sessions == 1..MaxSessions

\* the filenames a peer may declare
LFilenames == {"a.bin", "b.bin"}

\* start_receiver not called
ListenIdle ==
    /\ is_listening = FALSE /\ l_pc = "init" /\ l_ret = "none" /\ backlog = 0
    /\ w_pc = [w \in Sessions |-> "unborn"]
    /\ w_meta = [w \in Sessions |-> <<"none">>]
    /\ w_recv = [w \in Sessions |-> 0]
    /\ w_end = [w \in Sessions |-> "none"]
    /\ l_disk = [f \in LFilenames |-> NoFile]
    /\ l_after = 0

InitCommon ==
    /\ fh_cs = ChunkSize /\ fh_src = NoFile /\ StoreIdle
    /\ CryptoIdle /\ CliIdle /\ ListenIdle
    /\ TransferIdle

\* ------------------------------------------------------------- send_file
SrcChunks == TotalChunks(Len(src))

\* ack != 'READY' negated
ReadyOk_mut(ack) == ack # <<>>
ReadyOk(ack) == IsToken(ack, READY)

\* chunk_ack != f'CHUNK_{chunk_index}_OK' negated
ChunkAckOk_mut(ack, index) == \E i \in 0..MaxFileSize : IsToken(ack, ChunkOkToken(i))
ChunkAckOk(ack, index) == IsToken(ack, ChunkOkToken(index))

\* final_ack == 'SUCCESS'
FinalOk_mut(final_ack) == final_ack # <<>>
FinalOk(final_ack) == IsToken(final_ack, SUCCESS)

\* for chunk_index in range(metadata.chunks): the index after chunk_index
NextIndex_mut(index) == index + 2
NextIndex(index) == index + 1

\* return False after sock.close()
SenderFail(log, closed) ==
    /\ s_pc' = "done" /\ s_ret' = "False"
    /\ s_sock' = IF closed THEN "closed" ELSE "leaked"
    /\ s_log' = log
    /\ UNCHANGED <<s_idx, c2r>>

\* one pass of the chunk loop from index up to its blocking recv, or, past
\* the last chunk, the sending of TRANSFER_COMPLETE
SenderStep(index, log) ==
    IF index < SrcChunks
    THEN \/ \* read_chunk returned None or b''
            /\ SenderFail(Append(log, <<"readfail", index>>), TRUE)
            /\ io_failed' = TRUE
         \/ \* sock.send(header); sock.send(chunk_data): send may take a prefix
            \E k \in 1..Len(ReadChunk(src, index)) :
              LET chunk == ReadChunk(src, index)
              IN /\ c2r' = c2r \o HeaderBytes(index, Len(chunk), index = SrcChunks - 1)
                               \o Take(chunk, k)
                 /\ s_log' = log \o << <<"hdr", index>>, <<"pay", index, k, Len(chunk)>> >>
                 /\ s_idx' = index
                 /\ s_pc' = "wait_ack"
                 /\ UNCHANGED <<s_ret, s_sock, io_failed>>
    ELSE /\ c2r' = c2r \o TokenBytes(TRANSFER_COMPLETE)
         /\ s_log' = Append(log, <<"complete">>)
         /\ s_pc' = "wait_final"
         /\ UNCHANGED <<s_idx, s_ret, s_sock, io_failed>>

\* lines 21-48: metadata, create_socket, connect, handshake
SendFileBegin ==
    /\ s_pc = "init"
    /\ \/ /\ src = NoFile
          /\ s_pc' = "done" /\ s_ret' = "False"
          /\ UNCHANGED <<s_idx, s_sock, s_log, c2r, r_sock, io_failed>>
       \/ /\ src # NoFile
          /\ \E outcome \in {"ok", "nosocket", "connectfail"} :
               IF outcome = "ok"
               THEN /\ c2r' = c2r \o HandshakeBytes(SrcName, Len(src), SrcChunks,
                                                    Checksum(src), "send_file")
                    /\ s_log' = Append(s_log, <<"hs">>)
                    /\ s_sock' = "open" /\ r_sock' = "open"
                    /\ s_pc' = "wait_ready"
                    /\ UNCHANGED <<s_idx, s_ret, io_failed>>
               ELSE /\ s_pc' = "done" /\ s_ret' = "False"
                    /\ s_sock' = IF outcome = "nosocket" THEN "none" ELSE "leaked"
                    /\ s_log' = Append(s_log, <<outcome>>)
                    /\ io_failed' = TRUE
                    /\ UNCHANGED <<s_idx, c2r, r_sock>>
    /\ UNCHANGED aux_vars
    /\ UNCHANGED <<src, os_bound, r2c, peer_n>>
    /\ UNCHANGED recv_vars

\* lines 50-55, then the first pass of the loop
SendFileReady ==
    /\ s_pc = "wait_ready"
    /\ \E r \in RecvResults(r2c, r_sock = "closed", CtlRecvSize) :
         /\ r2c' = r[2]
         /\ IF ReadyOk(r[1])
            THEN SenderStep(0, Append(s_log, <<"rcv", "ready", r[1]>>))
            ELSE /\ SenderFail(Append(s_log, <<"rcv", "ready", r[1]>>), TRUE)
                 /\ UNCHANGED io_failed
    /\ UNCHANGED aux_vars
    /\ UNCHANGED <<src, os_bound, r_sock, peer_n>>
    /\ UNCHANGED recv_vars

\* lines 78-85, then the next pass of the loop
SendFileChunkAck ==
    /\ s_pc = "wait_ack"
    /\ \E r \in RecvResults(r2c, r_sock = "closed", CtlRecvSize) :
         /\ r2c' = r[2]
         /\ IF ChunkAckOk(r[1], s_idx)
            THEN SenderStep(NextIndex(s_idx), Append(s_log, <<"rcv", "ack", r[1]>>))
            ELSE /\ SenderFail(Append(s_log, <<"rcv", "ack", r[1]>>), TRUE)
                 /\ UNCHANGED io_failed
    /\ UNCHANGED aux_vars
    /\ UNCHANGED <<src, os_bound, r_sock, peer_n>>
    /\ UNCHANGED recv_vars

\* lines 89-98
SendFileFinal ==
    /\ s_pc = "wait_final"
    /\ \E r \in RecvResults(r2c, r_sock = "closed", CtlRecvSize) :
         /\ r2c' = r[2]
         /\ s_log' = Append(s_log, <<"rcv", "final", r[1]>>)
         /\ s_sock' = "closed"
         /\ s_pc' = "done"
         /\ s_ret' = IF FinalOk(r[1]) THEN "True" ELSE "False"
    /\ UNCHANGED aux_vars
    /\ UNCHANGED <<src, os_bound, s_idx, c2r, r_sock, io_failed, peer_n>>
    /\ UNCHANGED recv_vars

\* socket.timeout out of a blocking recv (settimeout(30)), lines 100-102
SendFileTimeout ==
    /\ s_pc \in {"wait_ready", "wait_ack", "wait_final"}
    /\ SenderFail(Append(s_log, <<"timeout">>), FALSE)
    /\ io_failed' = TRUE
    /\ UNCHANGED aux_vars
    /\ UNCHANGED <<src, os_bound, r2c, r_sock, peer_n>>
    /\ UNCHANGED recv_vars

\* the socket object the function dropped without close() is reclaimed
SocketFinalize ==
    /\ s_sock = "leaked"
    /\ s_sock' = "closed"
    /\ UNCHANGED aux_vars
    /\ UNCHANGED <<src, os_bound, s_pc, s_idx, s_ret, s_log, c2r, r2c, r_sock,
                   io_failed, peer_n>>
    /\ UNCHANGED recv_vars

SenderNext ==
    \/ SendFileBegin
    \/ SendFileReady
    \/ SendFileChunkAck
    \/ SendFileFinal
    \/ SendFileTimeout
    \/ SocketFinalize

\* ------------------------------------------- _handle_client / _receive_file
MetaFilename(m) == m[3]
MetaChunks(m) == m[5]
MetaChecksum(m) == m[6]
MetaAction(m) == m[7]
InfoIndex(h) == h[3]
InfoSize(h) == h[4]

IsHandshake(m) == m[2] = "hs"
IsHeader(h) == h[2] = "hdr"

OutputPath == JoinPath(DownloadDir, MetaFilename(metadata))

\* actual_checksum == expected_checksum
ChecksumOk_mut(actual, expected) == TRUE
ChecksumOk(actual, expected) == actual = expected

\* finally: sock.close()
ReceiverClose(log) ==
    /\ r_pc' = "closed" /\ r_sock' = "closed"
    /\ r_log' = log

\* listener.accept() and the start of the worker thread, lines 119-128
Accept ==
    /\ r_pc = "listen" /\ r_sock = "open"
    /\ r_pc' = "meta"
    /\ UNCHANGED aux_vars
    /\ UNCHANGED <<src, os_bound, c2r, r2c, r_sock, metadata_data, metadata,
                   chunk_info_data, chunk_info, chunk_data, received_chunks,
                   disk, r_log, io_failed, peer_n>>
    /\ UNCHANGED sender_vars

\* lines 154-157 and 168-182 once the first line is complete
Dispatch(md) ==
    IF ~JsonOk(md)
    THEN /\ ReceiverClose(Append(r_log, <<"exc", "json">>))
         /\ UNCHANGED <<metadata, received_chunks, r2c>>
    ELSE LET m == JsonValue(md)
         IN IF IsHandshake(m) /\ MetaAction(m) = "send_file"
            THEN IF ~os_bound
                 THEN \* os.path.join: NameError, caught at line 235
                      /\ metadata' = m
                      /\ ReceiverClose(r_log \o << <<"dispatch", "send_file">>,
                                                   <<"exc", "NameError">> >>)
                      /\ UNCHANGED <<received_chunks, r2c>>
                 ELSE /\ metadata' = m
                      /\ r2c' = r2c \o TokenBytes(READY)
                      /\ received_chunks' = 0
                      /\ r_pc' = IF 0 < MetaChunks(m) THEN "hdr" ELSE "completion"
                      /\ r_log' = r_log \o << <<"dispatch", "send_file">>,
                                              <<"snd", READY>> >>
                      /\ UNCHANGED r_sock
            ELSE /\ ReceiverClose(Append(r_log, <<"dispatch", "other">>))
                 /\ UNCHANGED <<metadata, received_chunks, r2c>>

\* lines 147-157: one recv of the metadata loop
HandleClientMetadata ==
    /\ r_pc = "meta"
    /\ \E r \in RecvResults(c2r, s_sock = "closed", CtlRecvSize) :
         /\ c2r' = r[2]
         /\ IF r[1] = <<>>
            THEN /\ ReceiverClose(r_log)
                 /\ UNCHANGED <<metadata_data, metadata, received_chunks, r2c>>
            ELSE IF ~HasNL(metadata_data \o r[1])
            THEN /\ metadata_data' = metadata_data \o r[1]
                 /\ UNCHANGED <<r_pc, r_sock, r_log, metadata, received_chunks, r2c>>
            ELSE /\ metadata_data' = metadata_data \o r[1]
                 /\ Dispatch(metadata_data \o r[1])
    /\ UNCHANGED aux_vars
    /\ UNCHANGED <<src, os_bound, chunk_info_data, chunk_info, chunk_data, disk,
                   io_failed, peer_n>>
    /\ UNCHANGED sender_vars

\* lines 209-216: write_chunk and the acknowledgment
WriteAndAck(info, data, log) ==
    \/ /\ disk' = [disk EXCEPT ![Resolve(OutputPath)] = WriteChunk(@, InfoIndex(info), data)]
       /\ r2c' = r2c \o TokenBytes(ChunkOkToken(InfoIndex(info)))
       /\ received_chunks' = received_chunks + 1
       /\ r_pc' = IF received_chunks + 1 < MetaChunks(metadata)
                  THEN "hdr" ELSE "completion"
       /\ r_log' = log \o << <<"write", InfoIndex(info), InfoSize(info), data>>,
                             <<"snd", ChunkOkToken(InfoIndex(info))>> >>
       /\ UNCHANGED io_failed
    \/ /\ r2c' = r2c \o TokenBytes(ChunkFailToken(InfoIndex(info)))
       /\ r_pc' = "completion"
       /\ r_log' = log \o << <<"writefail", InfoIndex(info)>>,
                             <<"snd", ChunkFailToken(InfoIndex(info))>> >>
       /\ io_failed' = TRUE
       /\ UNCHANGED <<disk, received_chunks>>

\* lines 195-202 once the header loop has ended with data d
ParseHeader(d) ==
    IF ~JsonOk(d) \/ ~IsHeader(JsonValue(d))
    THEN /\ ReceiverClose(r_log \o << <<"hdrread", d>>, <<"exc", "header">> >>)
         /\ UNCHANGED <<chunk_info, chunk_data, received_chunks, disk, r2c,
                        io_failed>>
    ELSE /\ chunk_info' = JsonValue(d)
         /\ chunk_data' = <<>>
         /\ IF InfoSize(JsonValue(d)) > 0
            THEN /\ r_pc' = "data"
                 /\ r_log' = Append(r_log, <<"hdrread", d>>)
                 /\ UNCHANGED <<received_chunks, disk, r2c, io_failed>>
            ELSE WriteAndAck(JsonValue(d), <<>>, Append(r_log, <<"hdrread", d>>))
         /\ UNCHANGED r_sock

\* lines 184-198: one recv of the header loop
ReceiveHeader ==
    /\ r_pc = "hdr"
    /\ \E r \in RecvResults(c2r, s_sock = "closed", CtlRecvSize) :
         /\ c2r' = r[2]
         /\ IF r[1] = <<>>
            THEN IF chunk_info_data = <<>>
                 THEN /\ r_pc' = "completion"
                      /\ r_log' = Append(r_log, <<"hdr_eof">>)
                      /\ UNCHANGED <<chunk_info_data, chunk_info, chunk_data,
                                     received_chunks, disk, r2c, r_sock, io_failed>>
                 ELSE /\ chunk_info_data' = <<>>
                      /\ ParseHeader(chunk_info_data)
            ELSE IF ~HasNL(chunk_info_data \o r[1])
            THEN /\ chunk_info_data' = chunk_info_data \o r[1]
                 /\ UNCHANGED <<r_pc, r_log, chunk_info, chunk_data,
                                received_chunks, disk, r2c, r_sock, io_failed>>
            ELSE /\ chunk_info_data' = <<>>
                 /\ ParseHeader(chunk_info_data \o r[1])
    /\ UNCHANGED aux_vars
    /\ UNCHANGED <<src, os_bound, metadata_data, metadata, peer_n>>
    /\ UNCHANGED sender_vars

\* lines 200-216: one recv of the payload loop
ReceiveData ==
    /\ r_pc = "data"
    /\ \E r \in RecvResults(c2r, s_sock = "closed",
                            Min(DataRecvSize, InfoSize(chunk_info) - Len(chunk_data))) :
         /\ c2r' = r[2]
         /\ IF r[1] # <<>> /\ Len(chunk_data \o r[1]) < InfoSize(chunk_info)
            THEN /\ chunk_data' = chunk_data \o r[1]
                 /\ UNCHANGED <<r_pc, r_log, received_chunks, disk, r2c, io_failed>>
            ELSE /\ chunk_data' = chunk_data \o r[1]
                 /\ WriteAndAck(chunk_info, chunk_data \o r[1], r_log)
    /\ UNCHANGED aux_vars
    /\ UNCHANGED <<src, os_bound, r_sock, metadata_data, metadata,
                   chunk_info_data, chunk_info, peer_n>>
    /\ UNCHANGED sender_vars

\* completion_data == 'TRANSFER_COMPLETE'
CompletionOk_mut(completion_data) == TRUE
CompletionOk(completion_data) == IsToken(completion_data, TRANSFER_COMPLETE)

\* lines 218-233, then the close of line 162
ReceiveCompletion ==
    /\ r_pc = "completion"
    /\ \E r \in RecvResults(c2r, s_sock = "closed", CtlRecvSize) :
         /\ c2r' = r[2]
         /\ IF ~Decodable(r[1])
            THEN \* UnicodeDecodeError, caught at line 235
                 /\ ReceiverClose(r_log \o << <<"completion", r[1]>>,
                                              <<"exc", "decode">> >>)
                 /\ UNCHANGED r2c
            ELSE IF CompletionOk(r[1])
            THEN IF disk[Resolve(OutputPath)] = NoFile
                 THEN \* open() in _calculate_checksum raises, caught at line 235
                      /\ ReceiverClose(r_log \o << <<"completion", r[1]>>,
                                                   <<"exc", "nofile">> >>)
                      /\ UNCHANGED r2c
                 ELSE IF ChecksumOk(Checksum(disk[Resolve(OutputPath)]), MetaChecksum(metadata))
                 THEN /\ r2c' = r2c \o TokenBytes(SUCCESS)
                      /\ ReceiverClose(r_log \o << <<"completion", r[1]>>,
                                                   <<"snd", SUCCESS>>,
                                                   <<"notify", OutputPath>> >>)
                 ELSE /\ r2c' = r2c \o TokenBytes(CHECKSUM_MISMATCH)
                      /\ ReceiverClose(r_log \o << <<"completion", r[1]>>,
                                                   <<"snd", CHECKSUM_MISMATCH>> >>)
            ELSE /\ r2c' = r2c \o TokenBytes(TRANSFER_INCOMPLETE)
                 /\ ReceiverClose(r_log \o << <<"completion", r[1]>>,
                                              <<"snd", TRANSFER_INCOMPLETE>> >>)
    /\ UNCHANGED aux_vars
    /\ UNCHANGED <<src, os_bound, metadata_data, metadata, chunk_info_data,
                   chunk_info, chunk_data, received_chunks, disk, io_failed, peer_n>>
    /\ UNCHANGED sender_vars

ReceiverNext ==
    \/ Accept
    \/ HandleClientMetadata
    \/ ReceiveHeader
    \/ ReceiveData
    \/ ReceiveCompletion

\* files that may already be in the download directory
OldFiles == {NoFile, <<>>, <<BX>>}

Init ==
    /\ InitCommon
    /\ src \in Files \cup {NoFile}
    /\ os_bound \in BOOLEAN
    /\ disk \in [Paths -> OldFiles]

Next == SenderNext \/ ReceiverNext

Spec == Init /\ [][Next]_vars

\* -------------------------------------------------- an arbitrary remote peer
PeerTokens == {READY, NOT_READY, SUCCESS, CHECKSUM_MISMATCH,
               ChunkOkToken(0), ChunkOkToken(1), ChunkFailToken(0)}

PeerReply ==
    /\ r_sock = "open"
    /\ peer_n < MaxPeerMsgs
    /\ \E t \in PeerTokens : r2c' = r2c \o TokenBytes(t)
    /\ peer_n' = peer_n + 1
    /\ UNCHANGED aux_vars
    /\ UNCHANGED <<src, os_bound, c2r, r_sock, io_failed>>
    /\ UNCHANGED sender_vars
    /\ UNCHANGED recv_vars

PeerClose ==
    /\ r_sock = "open"
    /\ r_sock' = "closed"
    /\ UNCHANGED aux_vars
    /\ UNCHANGED <<src, os_bound, c2r, r2c, io_failed, peer_n>>
    /\ UNCHANGED sender_vars
    /\ UNCHANGED recv_vars

InitSender ==
    /\ InitCommon
    /\ src \in Files \cup {NoFile}
    /\ os_bound = FALSE
    /\ disk = [p \in Paths |-> NoFile]

NextSender == SenderNext \/ PeerReply \/ PeerClose

SpecSender == InitSender /\ [][NextSender]_vars

\* ------------------------------------------------- FileHandler on its own
MaxChunkSize == 3
MaxRewrites == 1

MetaFilesize(m) == m[2]
MetaChunkCount(m) == m[3]

\* get_file_metadata(file_path), file_handler.py lines 21-42
GetFileMetadata ==
    /\ fh_meta[1] = "unset"
    /\ fh_meta' = IF fh_src = NoFile
                  THEN <<"none">>
                  ELSE <<"meta", Len(fh_src), ChunksFor(Len(fh_src), fh_cs)>>
    /\ UNCHANGED <<fh_cs, fh_src, fh_chunks, fh_dest, fh_written>>
    /\ UNCHANGED <<crypto_vars, cli_vars, listen_vars>>
    /\ UNCHANGED transfer_vars

\* read_chunk(file_path, chunk_index) for the next index of range(chunks)
ReadNextChunk ==
    /\ fh_meta[1] = "meta"
    /\ Len(fh_chunks) < MetaChunkCount(fh_meta)
    /\ fh_chunks' = Append(fh_chunks, ReadChunkAt(fh_src, Len(fh_chunks), fh_cs))
    /\ UNCHANGED <<fh_cs, fh_src, fh_meta, fh_dest, fh_written>>
    /\ UNCHANGED <<crypto_vars, cli_vars, listen_vars>>
    /\ UNCHANGED transfer_vars

\* how often index i was passed to write_chunk
TimesWritten(i) == Cardinality({p \in 1..Len(fh_written) : fh_written[p] = i})

\* write_chunk(file_path, i, chunk i of the source), chunks taken in any
\* order, a chunk possibly written again
WriteOneChunk ==
    /\ fh_meta[1] = "meta"
    /\ Len(fh_chunks) = MetaChunkCount(fh_meta)
    /\ \E i \in 0..(MetaChunkCount(fh_meta) - 1) :
         /\ fh_dest' = WriteChunk(fh_dest, i, fh_chunks[i + 1])
         /\ fh_written' = Append(fh_written, i)
    /\ Len(fh_written) < MetaChunkCount(fh_meta) + MaxRewrites
    /\ UNCHANGED <<fh_cs, fh_src, fh_meta, fh_chunks>>
    /\ UNCHANGED <<crypto_vars, cli_vars, listen_vars>>
    /\ UNCHANGED transfer_vars

InitStore ==
    /\ TransferIdle
    /\ src = NoFile /\ os_bound = FALSE
    /\ disk = [p \in Paths |-> NoFile]
    /\ fh_cs \in 1..MaxChunkSize
    /\ fh_src \in Files \cup {NoFile}
    /\ StoreIdle
    /\ CryptoIdle /\ CliIdle /\ ListenIdle

NextStore == GetFileMetadata \/ ReadNextChunk \/ WriteOneChunk

SpecStore == InitStore /\ [][NextStore]_vars

\* ----------------------------------------------- FileEncryptor on its own
\* AES-256-CBC with PKCS#7 padding on a reduced scale: bytes are the numbers
\* 0..BlockSize+1, a block has BlockSize bytes, xor is addition modulo the
\* number of byte values, the block cipher is a keyed permutation of blocks
BlockSize == 2
SaltLen == 1
ReadSize == 3
MaxPlainLen == 3

ByteMod == BlockSize + 2

PlainVals == {0, 1, 2}

Plaintexts == UNION {[1..k -> PlainVals] : k \in 0..MaxPlainLen}

Passwords == {"", "pw"}

PasswordCode(password) == IF password = "" THEN 0 ELSE 1

RECURSIVE SumBytes(_)
SumBytes(s) == IF s = <<>> THEN 0 ELSE Head(s) + SumBytes(Tail(s))

\* derive_key: PBKDF2-HMAC-SHA256 of password and salt
DeriveKey(password, salt) == 1 + PasswordCode(password) + 2 * SumBytes(salt)

\* the AES block permutation under key, and its inverse
BlockEncrypt(key, block) ==
    [i \in 1..Len(block) |-> (block[Len(block) + 1 - i] + key + i) % ByteMod]

BlockDecrypt(key, block) ==
    [i \in 1..Len(block) |->
       (block[Len(block) + 1 - i] - key - (Len(block) + 1 - i) + 3 * ByteMod * (key + 1)) % ByteMod]

XorBlock(a, b) == [i \in 1..Len(a) |-> (a[i] + b[i]) % ByteMod]

UnxorBlock(a, b) == [i \in 1..Len(a) |-> (a[i] - b[i] + ByteMod) % ByteMod]

\* encryptor.update(data) in CBC mode for whole blocks: <<ciphertext, last block>>
RECURSIVE CbcEncrypt(_, _, _)
CbcEncrypt(data, prev, key) ==
    IF data = <<>> THEN << <<>>, prev >>
    ELSE LET c == BlockEncrypt(key, XorBlock(Take(data, BlockSize), prev))
             r == CbcEncrypt(Drop(data, BlockSize), c, key)
         IN <<c \o r[1], r[2]>>

\* decryptor.update(data) in CBC mode for whole blocks: <<plaintext, last block>>
RECURSIVE CbcDecrypt(_, _, _)
CbcDecrypt(data, prev, key) ==
    IF data = <<>> THEN << <<>>, prev >>
    ELSE LET c == Take(data, BlockSize)
             r == CbcDecrypt(Drop(data, BlockSize), c, key)
         IN <<UnxorBlock(BlockDecrypt(key, c), prev) \o r[1], r[2]>>

WholeBlocks(n) == (n \div BlockSize) * BlockSize

\* padder.finalize(): PKCS#7 pads the buffered rest to a whole block
PadFinal_mut(buf) ==
    IF buf = <<>> THEN <<>>
    ELSE buf \o [i \in 1..(BlockSize - Len(buf)) |-> BlockSize - Len(buf)]
PadFinal(buf) == buf \o [i \in 1..(BlockSize - Len(buf)) |-> BlockSize - Len(buf)]

\* the read loop and the finalisation of encrypt_file, lines 46-58: rest is
\* the unread input, buf the padder's buffer, prev the last cipher block
RECURSIVE EncryptLoop(_, _, _, _)
EncryptLoop(rest, buf, prev, key) ==
    IF rest = <<>>
    THEN CbcEncrypt(PadFinal(buf), prev, key)[1]
    ELSE LET chunk == Take(rest, Min(ReadSize, Len(rest)))
             b2 == buf \o chunk
             n == WholeBlocks(Len(b2))
             e == CbcEncrypt(Take(b2, n), prev, key)
         IN e[1] \o EncryptLoop(Drop(rest, Len(chunk)), Drop(b2, n), e[2], key)

\* encrypt_file: salt, IV, then the ciphertext
EncryptFile(plain, password, salt, iv) ==
    salt \o iv \o EncryptLoop(plain, <<>>, iv, DeriveKey(password, salt))

Max(a, b) == IF a > b THEN a ELSE b

\* what unpadder.update keeps back: the last whole block and what follows it
UnpadKeep(n) == n - Max((n \div BlockSize) - 1, 0) * BlockSize

\* unpadder.finalize(): <<ok, data>>
UnpadFinal(buf) ==
    IF Len(buf) # BlockSize THEN <<FALSE, <<>> >>
    ELSE LET n == buf[BlockSize]
         IN IF n < 1 \/ n > BlockSize
               \/ \E i \in (BlockSize - n + 1)..BlockSize : buf[i] # n
            THEN <<FALSE, <<>> >>
            ELSE <<TRUE, Take(buf, BlockSize - n)>>

\* the read loop and the finalisation of decrypt_file, lines 85-97: dbuf is
\* what the decryptor buffers, ubuf what the unpadder buffers: <<ok, output>>
RECURSIVE DecryptLoop(_, _, _, _, _)
DecryptLoop(rest, dbuf, prev, ubuf, key) ==
    IF rest = <<>>
    THEN IF dbuf # <<>> THEN <<FALSE, <<>> >> ELSE UnpadFinal(ubuf)
    ELSE LET chunk == Take(rest, Min(ReadSize, Len(rest)))
             d2 == dbuf \o chunk
             n == WholeBlocks(Len(d2))
             p == CbcDecrypt(Take(d2, n), prev, key)
             u2 == ubuf \o p[1]
             keep == UnpadKeep(Len(u2))
             r == DecryptLoop(Drop(rest, Len(chunk)), Drop(d2, n), p[2],
                              Drop(u2, Len(u2) - keep), key)
         IN <<r[1], Take(u2, Len(u2) - keep) \o r[2]>>

\* decrypt_file: <<return value, content of the output file>>
DecryptFile(container, password) ==
    IF Len(container) < SaltLen + BlockSize THEN <<FALSE, <<>> >>
    ELSE LET salt == Take(container, SaltLen)
             iv == SubSeq(container, SaltLen + 1, SaltLen + BlockSize)
         IN DecryptLoop(Drop(container, SaltLen + BlockSize), <<>>, iv, <<>>,
                        DeriveKey(password, salt))

\* encrypt_file(input_path, output_path, password), lines 24-64
EncryptFileCall ==
    /\ enc_container[1] = "absent"
    /\ enc_container' = <<"file", EncryptFile(enc_plain, enc_password, enc_salt, enc_iv)>>
    /\ UNCHANGED <<enc_plain, enc_password, enc_salt, enc_iv, dec_result>>
    /\ UNCHANGED <<store_vars, cli_vars, listen_vars>>
    /\ UNCHANGED transfer_vars

\* decrypt_file(input_path, output_path, password) on the container, lines 66-103
DecryptFileCall ==
    /\ enc_container[1] = "file"
    /\ dec_result[1] = "unset"
    /\ \E password \in Passwords :
         dec_result' = <<"done", password, DecryptFile(enc_container[2], password)>>
    /\ UNCHANGED <<enc_plain, enc_password, enc_salt, enc_iv, enc_container>>
    /\ UNCHANGED <<store_vars, cli_vars, listen_vars>>
    /\ UNCHANGED transfer_vars

StoreUnused == fh_cs = ChunkSize /\ fh_src = NoFile /\ StoreIdle

TransferUnused ==
    /\ TransferIdle
    /\ src = NoFile /\ os_bound = FALSE
    /\ disk = [p \in Paths |-> NoFile]

InitCrypto ==
    /\ TransferUnused /\ StoreUnused /\ CliIdle /\ ListenIdle
    /\ enc_plain \in Plaintexts
    /\ enc_password \in Passwords
    /\ enc_salt \in [1..SaltLen -> {0, 1}]
    /\ enc_iv \in [1..BlockSize -> {0, 1}]
    /\ enc_container = <<"absent">> /\ dec_result = <<"unset">>

NextCrypto == EncryptFileCall \/ DecryptFileCall

SpecCrypto == InitCrypto /\ [][NextCrypto]_vars

\* ------------------------------------------------- the send command, cli.py
\* the --password option: absent, or a string
CliPasswords == {<<"None">>} \cup {<<"str", p>> : p \in Passwords}

\* if password:
Truthy(password) == password[1] = "str" /\ password[2] # ""

\* password is not None
IsNotNone(password) == password[1] # "None"

\* the bytes of the file at path
CliFileAt(path) == IF path = EncryptedPath THEN enc_container[2] ELSE enc_plain

HsFilename(h) == h[2]
HsFilesize(h) == h[3]
HsChecksum(h) == h[4]
HsEncrypted(h) == h[5]

\* metadata_dict of send_file from get_file_metadata(file_path) and password
MetadataDict(path, password) ==
    <<"hs", path, Len(CliFileAt(path)), Checksum(CliFileAt(path)), IsNotNone(password)>>

\* send, lines 53-61: encrypt to a side file when the password is truthy
CliSendPrepare ==
    /\ cli_pc = "idle"
    /\ IF Truthy(cli_password)
       THEN \E ok \in BOOLEAN :
              IF ok
              THEN /\ enc_container' = <<"file", EncryptFile(enc_plain, cli_password[2],
                                                            enc_salt, enc_iv)>>
                   /\ cli_path' = EncryptedPath
                   /\ cli_pc' = "send"
              ELSE /\ cli_pc' = "returned"
                   /\ UNCHANGED <<enc_container, cli_path>>
       ELSE /\ cli_pc' = "send"
            /\ UNCHANGED <<enc_container, cli_path>>
    /\ UNCHANGED <<enc_plain, enc_password, enc_salt, enc_iv, dec_result>>
    /\ UNCHANGED <<cli_password, cli_handshake>>
    /\ UNCHANGED <<store_vars, listen_vars>>
    /\ UNCHANGED transfer_vars

\* send line 63 and send_file lines 22-48: metadata of the file at file_path,
\* socket, connect, handshake
CliSendFile ==
    /\ cli_pc = "send"
    /\ \E outcome \in {"ok", "nosocket", "connectfail"} :
         IF outcome = "ok"
         THEN /\ cli_handshake' = MetadataDict(cli_path, cli_password)
              /\ cli_pc' = "handshake_sent"
         ELSE /\ cli_pc' = "returned"
              /\ UNCHANGED cli_handshake
    /\ UNCHANGED <<cli_password, cli_path>>
    /\ UNCHANGED <<store_vars, crypto_vars, listen_vars>>
    /\ UNCHANGED transfer_vars

InitCli ==
    /\ TransferUnused /\ StoreUnused /\ ListenIdle
    /\ enc_plain \in Plaintexts
    /\ cli_password \in CliPasswords
    /\ enc_password = (IF cli_password[1] = "str" THEN cli_password[2] ELSE "")
    /\ enc_salt \in [1..SaltLen -> {0, 1}]
    /\ enc_iv \in [1..BlockSize -> {0, 1}]
    /\ enc_container = <<"absent">> /\ dec_result = <<"unset">>
    /\ cli_pc = "idle" /\ cli_path = PlainPath /\ cli_handshake = <<"unset">>

NextCli == CliSendPrepare \/ CliSendFile

SpecCli == InitCli /\ [][NextCli]_vars

\* ------------------------------- start_receiver and its worker threads
\* the checksum a peer declares
LChecksums == {Checksum(<<BX>>)}

\* the payloads a peer sends with a chunk header; the empty one is a payload
\* cut short by the peer closing
LChunkData == {<<>>, <<BX>>}

\* what the metadata read loop of _handle_client ends with
MetaInputs ==
    {<<"eof">>, <<"malformed">>, <<"other">>}
    \cup {<<"send_file", f, n, c>> : f \in LFilenames, n \in 0..MaxSessChunks,
                                     c \in LChecksums}

\* what the header and payload read loops of _receive_file end with, and
\* whether write_chunk succeeds
ChunkInputs ==
    {<<"eof">>, <<"malformed">>}
    \cup {<<"chunk", i, d, ok>> : i \in 0..(MaxSessChunks - 1), d \in LChunkData,
                                  ok \in BOOLEAN}

\* what the completion recv of _receive_file ends with
CompletionInputs == {"TRANSFER_COMPLETE", "other", "error"}

WFilename(m) == m[2]
WChunks(m) == m[3]
WChecksum(m) == m[4]

Spawned == {w \in Sessions : w_pc[w] # "unborn"}

Active(w) == w_pc[w] \in {"metadata", "header", "completion"}

\* finally: sock.close() closes the socket of this worker
SessionsAfterClose_mut(pcs, w) ==
    [v \in DOMAIN pcs |-> IF pcs[v] = "unborn" THEN "unborn" ELSE "closed"]
SessionsAfterClose(pcs, w) == [pcs EXCEPT ![w] = "closed"]

\* the worker returns or raises: except Exception, finally sock.close()
CloseSession(w, how) ==
    /\ w_pc' = SessionsAfterClose(w_pc, w)
    /\ w_end' = [w_end EXCEPT ![w] = how]

\* start_receiver up to the loop: socket, bind, listen, is_listening = True;
\* an exception there returns False
StartReceiver ==
    /\ l_pc = "init"
    /\ \E bound \in BOOLEAN :
         IF bound
         THEN /\ is_listening' = TRUE /\ l_pc' = "loop"
              /\ UNCHANGED l_ret
         ELSE /\ l_pc' = "returned" /\ l_ret' = "False"
              /\ UNCHANGED is_listening
    /\ UNCHANGED <<backlog, w_pc, w_meta, w_recv, w_end, l_disk, l_after>>
    /\ UNCHANGED <<store_vars, crypto_vars, cli_vars>>
    /\ UNCHANGED transfer_vars

\* while self.is_listening: enter accept(), or listener.close() and return True
ListenerLoop ==
    /\ l_pc = "loop"
    /\ IF is_listening
       THEN l_pc' = "accept" /\ UNCHANGED l_ret
       ELSE l_pc' = "returned" /\ l_ret' = "True"
    /\ UNCHANGED <<is_listening, backlog, w_pc, w_meta, w_recv, w_end, l_disk, l_after>>
    /\ UNCHANGED <<store_vars, crypto_vars, cli_vars>>
    /\ UNCHANGED transfer_vars

\* listener.accept() returns a queued connection; a daemon thread running
\* _handle_client is started for it, or thread.start() raises and the
\* exception is printed; either way the loop goes on
ListenerAccept ==
    /\ l_pc = "accept"
    /\ backlog > 0
    /\ Spawned # Sessions
    /\ LET w == CHOOSE v \in Sessions \ Spawned :
                  \A u \in Sessions \ Spawned : v <= u
       IN \E started \in BOOLEAN :
            IF started
            THEN /\ w_pc' = [w_pc EXCEPT ![w] = "metadata"]
                 /\ UNCHANGED w_end
            ELSE /\ w_pc' = [w_pc EXCEPT ![w] = "dropped"]
                 /\ w_end' = [w_end EXCEPT ![w] = "nothread"]
    /\ l_after' = Cardinality({v \in Sessions : w_pc[v] = "closed"})
    /\ backlog' = backlog - 1
    /\ l_pc' = "loop"
    /\ UNCHANGED <<is_listening, l_ret, w_meta, w_recv, l_disk>>
    /\ UNCHANGED <<store_vars, crypto_vars, cli_vars>>
    /\ UNCHANGED transfer_vars

\* a peer connects to the listening port
Connect ==
    /\ l_pc \in {"loop", "accept"}
    /\ backlog + Cardinality(Spawned) < MaxSessions
    /\ backlog' = backlog + 1
    /\ UNCHANGED <<is_listening, l_pc, l_ret, w_pc, w_meta, w_recv, w_end, l_disk, l_after>>
    /\ UNCHANGED <<store_vars, crypto_vars, cli_vars>>
    /\ UNCHANGED transfer_vars

\* another thread of the application clears the flag
StopListening ==
    /\ l_pc \in {"loop", "accept"}
    /\ is_listening
    /\ is_listening' = FALSE
    /\ UNCHANGED <<l_pc, l_ret, backlog, w_pc, w_meta, w_recv, w_end, l_disk, l_after>>
    /\ UNCHANGED <<store_vars, crypto_vars, cli_vars>>
    /\ UNCHANGED transfer_vars

\* _handle_client up to the dispatch, and _receive_file up to READY
SessionMetadata(w) ==
    /\ w_pc[w] = "metadata"
    /\ \E input \in MetaInputs :
         IF input[1] = "send_file" /\ os_bound
         THEN /\ w_meta' = [w_meta EXCEPT ![w] = <<"meta", input[2], input[3], input[4]>>]
              /\ w_pc' = [w_pc EXCEPT ![w] = IF input[3] > 0 THEN "header"
                                              ELSE "completion"]
              /\ UNCHANGED w_end
         ELSE /\ CloseSession(w, CASE input[1] = "eof" -> "eof"
                                   [] input[1] = "other" -> "ignored"
                                   [] OTHER -> "exc")
              /\ UNCHANGED w_meta
    /\ UNCHANGED <<is_listening, l_pc, l_ret, backlog, w_recv, l_disk, l_after>>
    /\ UNCHANGED <<store_vars, crypto_vars, cli_vars>>
    /\ UNCHANGED transfer_vars

\* one round of the chunk loop of _receive_file: header, payload, write, ack
SessionChunk(w) ==
    /\ w_pc[w] = "header"
    /\ \E input \in ChunkInputs :
         CASE input[1] = "eof" ->
                /\ w_pc' = [w_pc EXCEPT ![w] = "completion"]
                /\ UNCHANGED <<w_recv, w_end, l_disk>>
           [] input[1] = "malformed" ->
                /\ CloseSession(w, "exc")
                /\ UNCHANGED <<w_recv, l_disk>>
           [] OTHER ->
                IF input[4]
                THEN /\ l_disk' = [l_disk EXCEPT ![WFilename(w_meta[w])] =
                                      WriteChunk(@, input[2], input[3])]
                     /\ w_recv' = [w_recv EXCEPT ![w] = @ + 1]
                     /\ w_pc' = [w_pc EXCEPT ![w] =
                                   IF w_recv[w] + 1 < WChunks(w_meta[w]) THEN "header"
                                   ELSE "completion"]
                     /\ UNCHANGED w_end
                ELSE /\ w_pc' = [w_pc EXCEPT ![w] = "completion"]
                     /\ UNCHANGED <<w_recv, w_end, l_disk>>
    /\ UNCHANGED <<is_listening, l_pc, l_ret, backlog, w_meta, l_after>>
    /\ UNCHANGED <<store_vars, crypto_vars, cli_vars>>
    /\ UNCHANGED transfer_vars

\* the completion read of _receive_file, the verification and the result token
SessionCompletion(w) ==
    /\ w_pc[w] = "completion"
    /\ \E input \in CompletionInputs :
         CloseSession(w,
            CASE input = "error" -> "exc"
              [] input = "other" -> "incomplete"
              [] OTHER ->
                   IF l_disk[WFilename(w_meta[w])] = NoFile THEN "exc"
                   ELSE IF ChecksumOk(Checksum(l_disk[WFilename(w_meta[w])]),
                                      WChecksum(w_meta[w]))
                        THEN "success" ELSE "mismatch")
    /\ UNCHANGED <<is_listening, l_pc, l_ret, backlog, w_meta, w_recv, l_disk, l_after>>
    /\ UNCHANGED <<store_vars, crypto_vars, cli_vars>>
    /\ UNCHANGED transfer_vars

ListenerNext == StartReceiver \/ ListenerLoop \/ ListenerAccept

SessionNext ==
    \E w \in Sessions : SessionMetadata(w) \/ SessionChunk(w) \/ SessionCompletion(w)

InitListener ==
    /\ TransferIdle
    /\ src = NoFile
    /\ os_bound \in BOOLEAN
    /\ disk = [p \in Paths |-> NoFile]
    /\ StoreUnused /\ CryptoIdle /\ CliIdle
    /\ ListenIdle

NextListener == ListenerNext \/ Connect \/ StopListening \/ SessionNext

SpecListener == InitListener /\ [][NextListener]_vars

\* the listener thread is scheduled whenever it can take a step; peers and
\* the application are not obliged to do anything
SpecListenerFair == SpecListener /\ WF_vars(ListenerNext)

\* ------------------------------------- an arbitrary remote peer that sends
MaxPeerSends == 6
MaxPeerChunks == 2

\* first lines a peer may send
PeerHandshakes ==
    {HandshakeBytes(f, 1, n, Checksum(<<BX>>), "send_file") :
        f \in Filenames, n \in 0..MaxPeerChunks}
    \cup {HandshakeBytes(SrcName, 1, 1, Checksum(<<BX>>), "list")}

\* chunk header lines a peer may send, each declaring a payload of one byte
PeerHeaders == {HeaderBytes(i, 1, FALSE) : i \in 0..MaxPeerChunks}

\* everything a peer may write to the socket in one send
PeerMsgs ==
    PeerHandshakes \cup PeerHeaders
    \cup {<<BX>>, TokenBytes(TRANSFER_COMPLETE), TokenBytes(READY), <<BAD, NL>>}

\* the peer's connect() reaches the listener
PeerConnect ==
    /\ s_sock = "none" /\ r_sock = "none"
    /\ s_sock' = "open" /\ r_sock' = "open"
    /\ UNCHANGED aux_vars
    /\ UNCHANGED <<src, os_bound, c2r, r2c, io_failed, peer_n>>
    /\ UNCHANGED <<s_pc, s_idx, s_ret, s_log>>
    /\ UNCHANGED recv_vars

\* the peer sends once what it sent before has been read
PeerSend ==
    /\ s_sock = "open"
    /\ c2r = <<>>
    /\ peer_n < MaxPeerSends
    /\ \E m \in PeerMsgs : c2r' = c2r \o m
    /\ peer_n' = peer_n + 1
    /\ UNCHANGED aux_vars
    /\ UNCHANGED <<src, os_bound, r2c, r_sock, io_failed>>
    /\ UNCHANGED sender_vars
    /\ UNCHANGED recv_vars

\* the peer closes its socket
PeerHangup ==
    /\ s_sock = "open"
    /\ s_sock' = "closed"
    /\ UNCHANGED aux_vars
    /\ UNCHANGED <<src, os_bound, c2r, r2c, r_sock, io_failed, peer_n>>
    /\ UNCHANGED <<s_pc, s_idx, s_ret, s_log>>
    /\ UNCHANGED recv_vars

InitReceiver ==
    /\ InitCommon
    /\ src = NoFile
    /\ os_bound \in BOOLEAN
    /\ disk \in [Paths -> OldFiles]

NextReceiver == ReceiverNext \/ PeerConnect \/ PeerSend \/ PeerHangup

SpecReceiver == InitReceiver /\ [][NextReceiver]_vars

\* ------------------------------------------------------------ properties
SLogPos(kind) == {p \in 1..Len(s_log) : s_log[p][1] = kind}

RLogPos(kind) == {p \in 1..Len(r_log) : r_log[p][1] = kind}

RcvPos(what) == {p \in SLogPos("rcv") : s_log[p][2] = what}

ReceiverSent(id) == \E p \in RLogPos("snd") : r_log[p][2] = id

\* the sender received CHUNK_<i>_OK at a log position strictly between lo and hi
AckedBetween(i, lo, hi) ==
    \E q \in RcvPos("ack") : lo < q /\ q < hi /\ IsToken(s_log[q][3], ChunkOkToken(i))

\* CHUNK_<i>_OK was received after the header of chunk i and before position hi
AckedAfterHdr(i, hi) ==
    \E lo \in SLogPos("hdr") : s_log[lo][2] = i /\ AckedBetween(i, lo, hi)

\* the sender put a header of chunk i on the stream
SentHeader(i) ==
    \E k \in 1..Len(c2r) : c2r[k][1] = "j" /\ c2r[k][2] = "hdr" /\ c2r[k][3] = i

\* the sender put the text of token id on the stream
SentToken(id) ==
    \E k \in 1..Len(c2r) : c2r[k][1] = "t" /\ c2r[k][2] = id

\* C1: with total_chunks >= 1 and no I/O failure, a finished session has
\* received_chunks = total_chunks, the destination equal to the source, the
\* receiver's last token SUCCESS and send_file returning True.
C1_EndToEndSuccess ==
    (src # NoFile /\ Len(src) >= 1 /\ ~io_failed /\ s_pc = "done" /\ r_pc = "closed")
    => /\ s_ret = "True"
       /\ received_chunks = SrcChunks
       /\ disk[Resolve(JoinPath(DownloadDir, SrcName))] = src
       /\ ReceiverSent(SUCCESS)

\* C2: chunk headers leave the sender with indices 0, 1, 2, ... without
\* repeat or gap; header i+1 only after CHUNK_<i>_OK was received in answer to
\* chunk i; TRANSFER_COMPLETE only after CHUNK_<total_chunks-1>_OK; at most
\* one chunk is unacknowledged.
C2_StopAndWait ==
    /\ \A p \in SLogPos("hdr") :
         /\ s_log[p][2] = Cardinality({q \in SLogPos("hdr") : q < p})
         /\ s_log[p][2] > 0 => AckedAfterHdr(s_log[p][2] - 1, p)
    /\ \A p \in SLogPos("complete") :
         /\ Cardinality(SLogPos("hdr")) = SrcChunks
         /\ SrcChunks > 0 => AckedAfterHdr(SrcChunks - 1, p)
    /\ Cardinality({p \in SLogPos("hdr") :
                      ~AckedBetween(s_log[p][2], p, Len(s_log) + 1)}) <= 1

C2_Witness ==
    /\ \E p \in SLogPos("hdr") : s_log[p][2] = 1
    /\ SLogPos("complete") # {}

\* the index of the chunk sent last before log position p
LastHdrBefore(p) ==
    s_log[CHOOSE q \in SLogPos("hdr") :
            q < p /\ \A q2 \in SLogPos("hdr") : q2 < p => q2 <= q][2]

WaitingAckAt(p) == p > 1 /\ s_log[p - 1][1] = "pay"

\* C3: after chunk i, anything received other than CHUNK_<i>_OK (another
\* token, CHUNK_<i>_FAIL, a disconnect) or no ack at all ends send_file with
\* False, and nothing is sent afterwards: no header i+1, no TRANSFER_COMPLETE,
\* no retry.
C3_AckMismatchAborts ==
    \A p \in 1..Len(s_log) :
      (/\ WaitingAckAt(p)
       /\ \/ s_log[p][1] = "timeout"
          \/ /\ s_log[p][1] = "rcv"
             /\ ~IsToken(s_log[p][3], ChunkOkToken(LastHdrBefore(p))))
      => /\ p = Len(s_log)
         /\ s_pc = "done" /\ s_ret = "False"
         /\ ~SentHeader(LastHdrBefore(p) + 1)
         /\ ~SentToken(TRANSFER_COMPLETE)
         /\ Cardinality({q \in SLogPos("hdr") : s_log[q][2] = LastHdrBefore(p)}) = 1

C3_Witness ==
    /\ Len(s_log) > 1 /\ WaitingAckAt(Len(s_log))
    /\ s_log[Len(s_log)][1] = "rcv"
    /\ IsToken(s_log[Len(s_log)][3], ChunkOkToken(1))
    /\ LastHdrBefore(Len(s_log)) = 0
    /\ SrcChunks = 2
    /\ s_ret = "False"

\* C4: a handshake answer other than READY makes send_file return False
\* having sent only the handshake line: no chunk header, no payload byte, no
\* TRANSFER_COMPLETE.
C4_HandshakeRejection ==
    \A p \in RcvPos("ready") :
      ~IsToken(s_log[p][3], READY)
      => /\ p = Len(s_log)
         /\ s_pc = "done" /\ s_ret = "False"
         /\ SLogPos("hdr") = {} /\ SLogPos("pay") = {} /\ SLogPos("complete") = {}
         /\ c2r = HandshakeBytes(SrcName, Len(src), SrcChunks, Checksum(src), "send_file")

C4_Witness ==
    /\ \E p \in RcvPos("ready") : IsToken(s_log[p][3], NOT_READY)
    /\ s_ret = "False"

\* C5: a first control line with action send_file is answered with READY
\* before any chunk header is read.
C5_ReadyOnSendFile ==
    \A p \in RLogPos("dispatch") :
      r_log[p][2] = "send_file"
      => /\ p < Len(r_log)
         /\ r_log[p + 1][1] = "snd"
         /\ r_log[p + 1][2] = READY

C7_SenderOutcome ==
    /\ s_ret = "True" => s_pc = "done"
    /\ s_pc = "done" =>
         (s_ret = "True" <=>
            /\ src # NoFile
            /\ \E p \in RcvPos("ready") : IsToken(s_log[p][3], READY)
            /\ \A i \in 0..(SrcChunks - 1) :
                 AckedAfterHdr(i, Len(s_log) + 1)
            /\ \E p \in RcvPos("final") : IsToken(s_log[p][3], SUCCESS))

C7_Witness ==
    /\ s_pc = "done" /\ s_ret = "True" /\ SrcChunks >= 1

FirstLine(d) ==
    IF HasNL(d)
    THEN Take(d, (CHOOSE k \in 1..Len(d) : d[k] = NL /\ \A j \in 1..(k - 1) : d[j] # NL) - 1)
    ELSE d

\* C9: a control token is recognised however the stream is segmented: the
\* sender takes the handshake answer for READY exactly when the first line
\* the peer sent is READY.
C9_SegmentationIndependent ==
    \A p \in RcvPos("ready") :
      (s_log[p][3] # <<>> /\ SLogPos("rcv") = {p})
      => (IsToken(s_log[p][3], READY) <=> FirstLine(s_log[p][3] \o r2c) = TokenText(READY))

\* what follows the first newline of d
AfterFirstLine(d) == Drop(d, Len(FirstLine(d)) + 1)

IsPrefix(a, b) == Len(a) <= Len(b) /\ Take(b, Len(a)) = a

ResultTokensSent ==
    {p \in RLogPos("snd") : r_log[p][2] = SUCCESS \/ r_log[p][2] = CHECKSUM_MISMATCH}

C16_SocketClosedOnReturn ==
    (s_pc = "done" /\ s_sock # "none") => s_sock = "closed"

\* the least k with k * chunk_size >= filesize
CeilDiv(filesize, chunk_size) ==
    CHOOSE k \in 0..filesize : k * chunk_size >= filesize
                               /\ \A j \in 0..(k - 1) : j * chunk_size < filesize

\* C19: get_file_metadata returns chunks = ceil(filesize / chunk_size), which
\* is 0 only for filesize = 0, and returns no metadata for a missing path.
C19_ChunkCount ==
    /\ fh_meta[1] = "meta"
       => /\ fh_src # NoFile
          /\ MetaFilesize(fh_meta) = Len(fh_src)
          /\ MetaChunkCount(fh_meta) = CeilDiv(Len(fh_src), fh_cs)
          /\ MetaChunkCount(fh_meta) = 0 <=> Len(fh_src) = 0
    /\ fh_meta[1] = "none" => fh_src = NoFile
    /\ (fh_src = NoFile /\ fh_meta[1] # "unset") => fh_meta[1] = "none"

C19_Witness ==
    /\ fh_meta[1] = "meta"
    /\ Len(fh_src) = 3 /\ fh_cs = 2 /\ MetaChunkCount(fh_meta) = 2

RECURSIVE Concat(_)
Concat(chunks) ==
    IF chunks = <<>> THEN <<>> ELSE Head(chunks) \o Concat(Tail(chunks))

AllChunksRead == fh_meta[1] = "meta" /\ Len(fh_chunks) = MetaChunkCount(fh_meta)

\* C18: read_chunk(0) .. read_chunk(total_chunks-1) concatenated are exactly
\* the file; every chunk but the last has length chunk_size and the last has
\* between 1 and chunk_size bytes.
C18_ChunkCoverage ==
    AllChunksRead
    => /\ Concat(fh_chunks) = fh_src
       /\ \A i \in 1..(Len(fh_chunks) - 1) : Len(fh_chunks[i]) = fh_cs
       /\ Len(fh_chunks) > 0
          => /\ Len(fh_chunks[Len(fh_chunks)]) >= 1
             /\ Len(fh_chunks[Len(fh_chunks)]) <= fh_cs

C18_Witness ==
    /\ AllChunksRead
    /\ Len(fh_chunks) = 2 /\ fh_cs = 2
    /\ Len(fh_chunks[2]) = 1

AllChunksWritten ==
    /\ AllChunksRead
    /\ \A i \in 0..(MetaChunkCount(fh_meta) - 1) : TimesWritten(i) >= 1

\* C12: once every chunk 0..total_chunks-1 of a file has been written with
\* write_chunk, in any order and possibly more than once, the destination
\* file equals the original file.
C12_PositionedWrites ==
    (AllChunksWritten /\ MetaChunkCount(fh_meta) >= 1) => fh_dest = fh_src

\* C20: decrypt_file with the password of encrypt_file succeeds on the
\* container (salt, IV, ciphertext of the padded plaintext) and reproduces the
\* original bytes, the empty input included.
C20_EncryptionRoundTrip ==
    /\ enc_container[1] = "file"
       => /\ Take(enc_container[2], SaltLen) = enc_salt
          /\ SubSeq(enc_container[2], SaltLen + 1, SaltLen + BlockSize) = enc_iv
          /\ Len(enc_container[2]) = SaltLen + BlockSize
                                     + WholeBlocks(Len(enc_plain)) + BlockSize
    /\ (dec_result[1] = "done" /\ dec_result[2] = enc_password)
       => dec_result[3] = <<TRUE, enc_plain>>

C20_Witness ==
    /\ dec_result[1] = "done" /\ dec_result[2] = enc_password
    /\ Len(enc_plain) = 3
    /\ dec_result[3][1] = TRUE

\* C17: the handshake's encrypted field is true exactly when the file sent
\* was encrypted before sending, and its checksum is the SHA-256 of the bytes
\* transferred: of the container when encrypted, of the plaintext otherwise.
C17_EncryptedFlagAndChecksum ==
    cli_handshake[1] = "hs"
    => /\ HsEncrypted(cli_handshake) = (enc_container[1] = "file")
       /\ HsChecksum(cli_handshake)
            = Checksum(IF enc_container[1] = "file" THEN enc_container[2] ELSE enc_plain)

SessionStep(w) == Active(w) /\ (w_pc'[w] # w_pc[w] \/ w_recv'[w] # w_recv[w])

\* C14: while is_listening is set the listener is in its accept loop,
\* whatever sessions have failed; every accepted connection has its own
\* worker; and a step of one session, its failure included, leaves the
\* listener and the metadata, progress, position and outcome of every other
\* session as they were.
C14_ListenerIsolation ==
    /\ [](is_listening => l_pc \in {"loop", "accept"})
    /\ [](l_pc = "returned" => (l_ret = "False" \/ ~is_listening))
    /\ [][\A w \in Sessions :
            SessionStep(w)
            => /\ is_listening' = is_listening /\ l_pc' = l_pc /\ l_ret' = l_ret
               /\ backlog' = backlog
               /\ \A v \in Sessions \ {w} :
                    /\ w_pc'[v] = w_pc[v] /\ w_meta'[v] = w_meta[v]
                    /\ w_recv'[v] = w_recv[v] /\ w_end'[v] = w_end[v]]_vars
    /\ [][l_pc = "accept" /\ l_pc' = "loop"
          => Cardinality({w \in Sessions : w_pc'[w] # "unborn"})
               = Cardinality(Spawned) + 1]_vars

\* a connection was accepted after a session had failed, and its worker ran
\* while the listener went on
C14_Witness ==
    /\ l_after >= 1
    /\ \E w \in Sessions : w_end[w] = "exc"
    /\ \E v \in Sessions : w_pc[v] = "completion" /\ w_recv[v] = 1
    /\ is_listening /\ l_pc = "accept"

\* C15: once is_listening has been cleared while the accept loop runs,
\* start_receiver eventually closes the listener and returns True.
C15_CooperativeStop ==
    (~is_listening /\ l_pc \in {"loop", "accept"}) ~> (l_pc = "returned" /\ l_ret = "True")

RefusedAt == {p \in RLogPos("completion") : ~IsToken(r_log[p][2], TRANSFER_COMPLETE)}

\* no verification outcome and no notification in the session
NothingVerified ==
    /\ ~ReceiverSent(SUCCESS)
    /\ ~ReceiverSent(CHECKSUM_MISMATCH)
    /\ RLogPos("notify") = {}

AckedIndices ==
    LET ps == {p \in RLogPos("snd") : r_log[p][2][1] = "CHUNK" /\ r_log[p][2][3] = "OK"}
        F[n \in 0..Len(r_log)] ==
            IF n = 0 THEN <<>>
            ELSE IF n \in ps THEN Append(F[n - 1], r_log[n][2][2]) ELSE F[n - 1]
    IN F[Len(r_log)]

InsideDownloadDir(path) ==
    /\ Len(path) = Len(DownloadDir) + 1
    /\ SubSeq(path, 1, Len(DownloadDir)) = DownloadDir
    /\ path[Len(path)] \notin {"..", "/"}

====
